---- MODULE Spec2Model ----
(***************************************************************************)
(* Stock ledger of the e-commerce backend: Product.stock, the              *)
(* StockReservation rows, the reservation operations of catalog/models.py  *)
(* and the expiry sweep of catalog/tasks.py, run by concurrent workers     *)
(* against one database.  Every database statement is one step; what a     *)
(* worker holds in memory between two statements (a model instance, an     *)
(* evaluated queryset) is part of its local state.                         *)
(***************************************************************************)
EXTENDS Integers, Sequences, FiniteSets, TLC

\* ------------------------------------------------------------------ bounds
MaxTime == 60        \* the clock stops here (minutes)
TickMinutes == 30    \* minutes between two observations of the clock
MaxRes == 2          \* StockReservation rows ever created
MaxQty == 3          \* largest quantity of a call
InitStock == 5       \* Product.stock of every product at the start
MaxDebt == 3         \* convert_reservation_to_sale is not started below -MaxDebt
MaxCalls == 4        \* calls started in one run
MaxUses == 2         \* largest Coupon.max_uses
ValidUntil == 30     \* Coupon.valid_until of the coupon (minutes)

\* ------------------------------------------------------- program constants
expiration_minutes == 30

\* ------------------------------------------------------------ fixed tables
None == 0
Procs == {1, 2}
Products == {1}
Catalog == {1, 2}
Users == {1, 2}
CartItems == {1, 2}
Orders == {1}
Quantities == {1, MaxQty}

\* CartItem.product and CartItem.cart.user (one cart per user): lines 1 and 3
\* are the lines of user 1's cart, for products 1 and 2; line 2 is user 2's
ItemProduct(i) == IF i = 3 THEN 2 ELSE 1
ItemUser(i) == IF i = 2 THEN 2 ELSE 1
CartLines == {1, 3}
OrderUser(o) == 1

Terminal == {"CONVERTED", "EXPIRED", "RELEASED"}

VARIABLES
    now,            \* timezone.now(), in minutes
    stock,          \* Product.stock, per product (the database column)
    res,            \* the StockReservation table, in order of creation
    proc,           \* per worker: the call it is in and what it holds in memory
    returned,       \* what the step just taken returned or raised, if it
                    \* ended a call
    hist,           \* history: the reservation just made, while nothing else
                    \* has touched the ledger since
    calls,          \* calls started so far
    order,          \* the Order rows: status and coupon
    payment,        \* the Payment rows: status and order
    coupon,         \* the Coupon row
    cart,           \* the Cart row of the shopper: subtotal, total, coupon
    items,          \* the CartItem rows of that cart, per line
    price,          \* Product.price and discount_price, per product
    placed          \* the Order rows made by OrderCreateSerializer.create,
                    \* each with its OrderItem rows, in order of creation

\* what the stock ledger's own operations never touch
shopVars == <<order, payment, coupon, cart, items, price, placed>>

vars == <<now, stock, res, proc, returned, hist, calls,
          order, payment, coupon, cart, items, price, placed>>

\* ----------------------------------------------------------------- helpers
Max(a, b) == IF a >= b THEN a ELSE b

RECURSIVE SumQuantity(_)
SumQuantity(rows) ==
    IF rows = <<>> THEN 0
    ELSE Head(rows).quantity + SumQuantity(Tail(rows))

\* Meta.ordering = ['-created_at']: newest row first
RECURSIVE NewestFirst(_)
NewestFirst(s) ==
    IF s = <<>> THEN <<>>
    ELSE <<s[Len(s)]>> \o NewestFirst(SubSeq(s, 1, Len(s) - 1))

\* the table as (id, row) pairs, the way a queryset hands rows out
RECURSIVE Tagged(_, _)
Tagged(rows, n) ==
    IF n = 0 THEN <<>>
    ELSE Tagged(rows, n - 1) \o <<[id |-> n, row |-> rows[n]]>>

Objects(rows) == NewestFirst(Tagged(rows, Len(rows)))

Slice(s, n) == SubSeq(s, 1, IF Len(s) < n THEN Len(s) ELSE n)

\* a returned value: what it is and, for the sweep's message, its count
Ret(kind, n) == [kind |-> kind, n |-> n]
NoReturn == Ret("none", 0)
NoHist == [product |-> None, cart_item |-> None, order |-> None,
           before |-> 0, held |-> 0, by |-> None, released |-> FALSE]

\* a Coupon instance nobody has loaded
NoCoupon == [discount_value |-> 0, discount_percentage |-> 0, max_uses |-> 0,
             current_uses |-> 0, valid_until |-> 0, active |-> FALSE]

\* a Cart instance nobody has loaded, and the row of a cart with no lines
NoCart == [subtotal |-> 0, total |-> 0, coupon |-> None]

\* no CartItem row
NoLine == [quantity |-> 0, price_at_time |-> 0, total_price |-> 0]

Idle == [pc |-> "idle", op |-> "none", product |-> None, quantity |-> 0,
         cart_item |-> None, order |-> None, stock |-> 0, loaded |-> <<>>,
         coupon |-> NoCoupon, status |-> "none", value |-> "none",
         cart |-> NoCart, price |-> 0, subtotal |-> 0]

\* a worker takes a call when it is free; the second worker only while the
\* first is busy (the workers are interchangeable)
CanCall(p) ==
    /\ proc[p].pc = "idle"
    /\ calls < MaxCalls
    /\ p = 1 \/ proc[1].pc # "idle"

\* ------------------------------------------------- Product.available_stock
\* mutant: a reservation still counts at the minute it expires
IsActiveInclusive(r, prod, t) ==
    r.product = prod /\ r.status = "RESERVED" /\ r.expires_at >= t

\* mutant: a reservation counts until a sweep marks it EXPIRED
IsActiveUntilSwept(r, prod, t) ==
    r.product = prod /\ r.status = "RESERVED"

IsActive(r, prod, t) ==
    r.product = prod /\ r.status = "RESERVED" /\ r.expires_at > t

active_reservations(rows, prod, t) ==
    SumQuantity(SelectSeq(rows, LAMBDA r : IsActive(r, prod, t)))

available_stock(stk, prod, rows, t) ==
    Max(0, stk - active_reservations(rows, prod, t))

\* what a fresh read of the product's available_stock returns in this state
AvailableStock(prod) == available_stock(stock[prod], prod, res, now)

\* ---------------------------------------------------- Product.reserve_stock
\* mutant: the time to live is not added to the expiry
NewReservationNoTtl(prod, item, ord, q, t) ==
    [product |-> prod, cart_item |-> item, order |-> ord, quantity |-> q,
     status |-> "RESERVED", expires_at |-> t]

NewReservation(prod, item, ord, q, t) ==
    [product |-> prod, cart_item |-> item, order |-> ord, quantity |-> q,
     status |-> "RESERVED", expires_at |-> t + expiration_minutes]

Reserving == {p \in Procs : proc[p].op = "reserve"}

SameHolder(r, prod, item, ord) ==
    r.product = prod /\ r.cart_item = item /\ r.order = ord

\* the quantity a holder has in unexpired RESERVED rows of a product
HeldBy(rows, prod, item, ord, t) ==
    SumQuantity(SelectSeq(rows, LAMBDA r :
        SameHolder(r, prod, item, ord) /\ IsActive(r, prod, t)))

\* the caller holds a Product instance and calls reserve_stock on it
reserve_stock_call(p, prod, q, item, ord) ==
    /\ CanCall(p)
    /\ Len(res) + Cardinality(Reserving) < MaxRes
    /\ proc' = [proc EXCEPT ![p] =
                  [Idle EXCEPT !.pc = "check", !.op = "reserve",
                               !.product = prod, !.quantity = q,
                               !.cart_item = item, !.order = ord,
                               !.stock = stock[prod]]]
    /\ calls' = calls + 1
    /\ returned' = NoReturn
    /\ UNCHANGED <<now, stock, res, hist>>
    /\ UNCHANGED shopVars

\* mutant: the last available unit cannot be reserved
InsufficientStockOffByOne(p) ==
    proc[p].quantity >=
        available_stock(proc[p].stock, proc[p].product, res, now)

InsufficientStock(p) ==
    proc[p].quantity >
        available_stock(proc[p].stock, proc[p].product, res, now)

\* if quantity > self.available_stock: raise ValueError
reserve_stock_check(p) ==
    /\ proc[p].pc = "check"
    /\ IF InsufficientStock(p)
       THEN /\ proc' = [proc EXCEPT ![p] = Idle]
            /\ returned' = Ret("InsufficientStock", 0)
       ELSE /\ proc' = [proc EXCEPT ![p].pc = "create"]
            /\ returned' = NoReturn
    /\ UNCHANGED <<now, stock, res, hist, calls>>
    /\ UNCHANGED shopVars

\* StockReservation.objects.create(...); return reservation
reserve_stock_create(p) ==
    /\ proc[p].pc = "create"
    /\ res' = Append(res, NewReservation(proc[p].product, proc[p].cart_item,
                                         proc[p].order, proc[p].quantity, now))
    /\ proc' = [proc EXCEPT ![p] = Idle]
    /\ returned' = Ret("Reservation", 0)
    /\ hist' = [product |-> proc[p].product, cart_item |-> proc[p].cart_item,
                order |-> proc[p].order,
                before |-> AvailableStock(proc[p].product),
                held |-> HeldBy(res, proc[p].product, proc[p].cart_item,
                                proc[p].order, now),
                by |-> None, released |-> FALSE]
    /\ UNCHANGED <<now, stock, calls>>
    /\ UNCHANGED shopVars

\* ------------------------------------------ Product.release_stock_reservation
\* the rows the method's filter selects: cart_item wins when both are given
ReleaseFilter(r, prod, item, ord) ==
    /\ r.product = prod
    /\ r.status = "RESERVED"
    /\ IF item # None THEN r.cart_item = item ELSE r.order = ord

InHist(p) ==
    /\ hist.product = proc[p].product
    /\ hist.product # None
    /\ hist.cart_item = proc[p].cart_item
    /\ hist.order = proc[p].order

\* with neither holder the method returns False at once
release_stock_reservation_call(p, prod, item, ord) ==
    /\ CanCall(p)
    /\ IF item = None /\ ord = None
       THEN /\ returned' = Ret("False", 0)
            /\ UNCHANGED proc
       ELSE /\ proc' = [proc EXCEPT ![p] =
                          [Idle EXCEPT !.pc = "filter", !.op = "release",
                                       !.product = prod, !.cart_item = item,
                                       !.order = ord]]
            /\ returned' = NoReturn
    /\ calls' = calls + 1
    /\ UNCHANGED <<now, stock, res, hist>>
    /\ UNCHANGED shopVars

\* for reservation in reservations: the queryset is evaluated here, once
release_stock_reservation_filter(p) ==
    /\ proc[p].pc = "filter"
    /\ proc[p].op = "release"
    /\ LET rows == SelectSeq(Objects(res), LAMBDA o :
                       ReleaseFilter(o.row, proc[p].product,
                                     proc[p].cart_item, proc[p].order))
       IN IF rows = <<>>
          THEN /\ proc' = [proc EXCEPT ![p] = Idle]
               /\ returned' = Ret("True", 0)
               /\ hist' = NoHist
          ELSE /\ proc' = [proc EXCEPT ![p].pc = "save", ![p].loaded = rows]
               /\ returned' = NoReturn
               /\ hist' = IF InHist(p) /\ hist.by = None /\ ~hist.released
                          THEN [hist EXCEPT !.by = p] ELSE NoHist
    /\ UNCHANGED <<now, stock, res, calls>>
    /\ UNCHANGED shopVars

\* mutant: release changes the instance and never saves it
releaseWithoutSave(p) ==
    /\ proc[p].pc = "save"
    /\ proc[p].op = "release"
    /\ LET rest == Tail(proc[p].loaded)
       IN IF rest = <<>>
          THEN /\ proc' = [proc EXCEPT ![p] = Idle]
               /\ returned' = Ret("True", 0)
               /\ hist' = IF hist.by = p
                          THEN [hist EXCEPT !.by = None, !.released = TRUE]
                          ELSE NoHist
          ELSE /\ proc' = [proc EXCEPT ![p].loaded = rest]
               /\ returned' = NoReturn
               /\ hist' = IF hist.by = p THEN hist ELSE NoHist
    /\ UNCHANGED <<now, stock, res, calls>>
    /\ UNCHANGED shopVars

\* StockReservation.release on the instance the loop holds: the status tested
\* is the instance's, and save() writes the instance's fields over the row
release(p) ==
    /\ proc[p].pc = "save"
    /\ proc[p].op = "release"
    /\ LET o == Head(proc[p].loaded)
           rest == Tail(proc[p].loaded)
       IN /\ res' = IF o.row.status = "RESERVED"
                    THEN [res EXCEPT ![o.id] =
                             [o.row EXCEPT !.status = "RELEASED"]]
                    ELSE res
          /\ IF rest = <<>>
             THEN /\ proc' = [proc EXCEPT ![p] = Idle]
                  /\ returned' = Ret("True", 0)
                  /\ hist' = IF hist.by = p
                             THEN [hist EXCEPT !.by = None, !.released = TRUE]
                             ELSE NoHist
             ELSE /\ proc' = [proc EXCEPT ![p].loaded = rest]
                  /\ returned' = NoReturn
                  /\ hist' = IF hist.by = p THEN hist ELSE NoHist
    /\ UNCHANGED <<now, stock, calls>>
    /\ UNCHANGED shopVars

\* ---------------------------------------- Product.convert_reservation_to_sale
ConvertFilter(r, prod, ord) ==
    /\ r.product = prod
    /\ r.cart_item # None
    /\ ItemUser(r.cart_item) = OrderUser(ord)
    /\ r.status = "RESERVED"

convert_reservation_to_sale_call(p, prod, ord, q) ==
    /\ CanCall(p)
    /\ stock[prod] - q >= -MaxDebt
    /\ proc' = [proc EXCEPT ![p] =
                  [Idle EXCEPT !.pc = "filter", !.op = "convert",
                               !.product = prod, !.quantity = q,
                               !.order = ord, !.stock = stock[prod]]]
    /\ calls' = calls + 1
    /\ returned' = NoReturn
    /\ UNCHANGED <<now, stock, res, hist>>
    /\ UNCHANGED shopVars

\* StockReservation.objects.filter(...)[:quantity], evaluated by the loop
convert_reservation_to_sale_filter(p) ==
    /\ proc[p].pc = "filter"
    /\ proc[p].op = "convert"
    /\ LET rows == Slice(SelectSeq(Objects(res), LAMBDA o :
                            ConvertFilter(o.row, proc[p].product, proc[p].order)),
                         proc[p].quantity)
       IN proc' = [proc EXCEPT ![p].pc = IF rows = <<>> THEN "stock" ELSE "save",
                               ![p].loaded = rows]
    /\ returned' = NoReturn
    /\ UNCHANGED <<now, stock, res, hist, calls>>
    /\ UNCHANGED shopVars

\* reservation.status = 'CONVERTED'; reservation.order = order; reservation.save()
convert_reservation_to_sale_save(p) ==
    /\ proc[p].pc = "save"
    /\ proc[p].op = "convert"
    /\ LET o == Head(proc[p].loaded)
           rest == Tail(proc[p].loaded)
       IN /\ res' = [res EXCEPT ![o.id] =
                        [o.row EXCEPT !.status = "CONVERTED",
                                      !.order = proc[p].order]]
          /\ proc' = [proc EXCEPT ![p].loaded = rest,
                                  ![p].pc = IF rest = <<>> THEN "stock" ELSE "save"]
    /\ returned' = NoReturn
    /\ hist' = NoHist
    /\ UNCHANGED <<now, stock, calls>>
    /\ UNCHANGED shopVars

\* self.stock -= quantity; self.save(); return True
convert_reservation_to_sale_stock(p) ==
    /\ proc[p].pc = "stock"
    /\ stock' = [stock EXCEPT ![proc[p].product] =
                    proc[p].stock - proc[p].quantity]
    /\ proc' = [proc EXCEPT ![p] = Idle]
    /\ returned' = Ret("True", 0)
    /\ hist' = NoHist
    /\ UNCHANGED <<now, res, calls>>
    /\ UNCHANGED shopVars

\* ------------------------------------------------- expire_old_reservations
\* mutant: the sweep also takes the reservations expiring this minute
SweepableInclusive(r, t) == r.status = "RESERVED" /\ r.expires_at <= t

\* mutant: the sweep takes the rows that expire later, not earlier
SweepableLater(r, t) == r.status = "RESERVED" /\ r.expires_at > t

Sweepable(r, t) == r.status = "RESERVED" /\ r.expires_at < t

\* filter(status='RESERVED', expires_at__lt=now).update(status='EXPIRED')
Expired(rows, t) ==
    [i \in DOMAIN rows |->
        IF Sweepable(rows[i], t) THEN [rows[i] EXCEPT !.status = "EXPIRED"]
        ELSE rows[i]]

UpdateCount(rows, t) == Len(SelectSeq(rows, LAMBDA r : Sweepable(r, t)))

expire_old_reservations ==
    /\ res' = Expired(res, now)
    /\ returned' = Ret("Expiraram", UpdateCount(res, now))
    /\ hist' = NoHist
    /\ UNCHANGED <<now, stock, proc, calls>>
    /\ UNCHANGED shopVars

\* StockReservationAdmin.get_queryset runs the same update before listing
get_queryset ==
    /\ res' = Expired(res, now)
    /\ returned' = NoReturn
    /\ hist' = NoHist
    /\ UNCHANGED <<now, stock, proc, calls>>
    /\ UNCHANGED shopVars

\* ------------------------------------------------------------------- clock
Tick ==
    /\ now + TickMinutes <= MaxTime
    /\ now' = now + TickMinutes
    /\ returned' = NoReturn
    /\ hist' = NoHist
    /\ UNCHANGED <<stock, res, proc, calls>>
    /\ UNCHANGED shopVars

\* ------------------------------------------------------------------ Coupon
\* money is a Decimal, counted here in ten-thousandths: a DecimalField with
\* decimal_places=2 holds whole cents, and amount * percentage / 100 of such
\* an amount is exact
Cent == 100
Money(units, cents) == (units * 100 + cents) * Cent

Min(a, b) == IF a <= b THEN a ELSE b

\* Coupon.is_valid
is_valid(c, t) ==
    IF ~c.active THEN FALSE
    ELSE IF t > c.valid_until THEN FALSE
    ELSE IF c.current_uses >= c.max_uses THEN FALSE
    ELSE TRUE

\* Coupon.can_be_used
can_be_used(c, t) == is_valid(c, t) /\ c.current_uses < c.max_uses

\* mutant: the discount is not held to the amount
apply_discount_unclamped(c, amount) ==
    LET discount == IF c.discount_percentage > 0
                    THEN (amount * c.discount_percentage) \div 100
                    ELSE c.discount_value
    IN amount - discount

\* Coupon.apply_discount
apply_discount(c, amount) ==
    LET discount == IF c.discount_percentage > 0
                    THEN (amount * c.discount_percentage) \div 100
                    ELSE c.discount_value
    IN Max(0, amount - Min(discount, amount))

\* CouponViewSet.validate with an amount: the code must name a coupon that
\* is valid and can be used, and the answer carries the discounted amount
validate(amount) ==
    /\ returned' = IF ~is_valid(coupon, now) \/ ~can_be_used(coupon, now)
                   THEN Ret("ValidationError", 0)
                   ELSE Ret("final_amount", apply_discount(coupon, amount))
    /\ UNCHANGED <<now, stock, res, proc, hist, calls, shopVars>>

\* a caller loads the coupon and is about to call use() or release() on it
Coupon_get(p, op) ==
    /\ CanCall(p)
    /\ proc' = [proc EXCEPT ![p] =
                  [Idle EXCEPT !.pc = op, !.op = "coupon", !.coupon = coupon]]
    /\ calls' = calls + 1
    /\ returned' = NoReturn
    /\ UNCHANGED <<now, stock, res, hist, shopVars>>

\* mutant: use() counts a use without asking can_be_used
use_unchecked(p) ==
    /\ proc[p].pc = "use"
    /\ coupon' = [proc[p].coupon EXCEPT !.current_uses = @ + 1]
    /\ returned' = Ret("True", 0)
    /\ proc' = [proc EXCEPT ![p] = Idle]
    /\ UNCHANGED <<now, stock, res, hist, calls, order, payment, cart, items,
                   price, placed>>

\* Coupon.use on the loaded instance: save() writes the instance's fields
use(p) ==
    /\ proc[p].pc = "use"
    /\ IF can_be_used(proc[p].coupon, now)
       THEN /\ coupon' = [proc[p].coupon EXCEPT !.current_uses = @ + 1]
            /\ returned' = Ret("True", 0)
       ELSE /\ coupon' = coupon
            /\ returned' = Ret("False", 0)
    /\ proc' = [proc EXCEPT ![p] = Idle]
    /\ UNCHANGED <<now, stock, res, hist, calls, order, payment, cart, items,
                   price, placed>>

\* Coupon.release on the loaded instance
Coupon_release(p) ==
    /\ proc[p].pc = "release"
    /\ proc[p].op = "coupon"
    /\ IF proc[p].coupon.current_uses > 0
       THEN /\ coupon' = [proc[p].coupon EXCEPT !.current_uses = @ - 1]
            /\ returned' = Ret("True", 0)
       ELSE /\ coupon' = coupon
            /\ returned' = Ret("False", 0)
    /\ proc' = [proc EXCEPT ![p] = Idle]
    /\ UNCHANGED <<now, stock, res, hist, calls, order, payment, cart, items,
                   price, placed>>

\* ---------------------------------------------------------- Product prices
\* Product.discount_price is nullable: the value of a product without one
NoPrice == -1

\* a product sold at its list price x
Listed(x) == [price |-> x, discount_price |-> NoPrice]

\* Product.has_discount
has_discount(product) ==
    product.discount_price # NoPrice /\ product.discount_price < product.price

\* product.discount_price if product.has_discount else product.price
price_at_time(product) ==
    IF has_discount(product) THEN product.discount_price ELSE product.price

\* ------------------------------------------------------------------- Order
OrderStatus ==
    {"PENDING", "PAID", "PROCESSING", "SHIPPED", "DELIVERED", "CANCELED"}

\* mutant: every status may follow every status
valid_transitions_any(status) == OrderStatus

\* OrderUpdateSerializer.validate_status: the table of transitions
valid_transitions(status) ==
    CASE status = "PENDING" -> {"PAID", "CANCELED"}
      [] status = "PAID" -> {"PROCESSING", "CANCELED"}
      [] status = "PROCESSING" -> {"SHIPPED", "CANCELED"}
      [] status = "SHIPPED" -> {"DELIVERED"}
      [] status = "DELIVERED" -> {}
      [] status = "CANCELED" -> {}

\* OrderViewSet.update / partial_update: get_object loads the order
update_get_object(p, o, value) ==
    /\ CanCall(p)
    /\ proc' = [proc EXCEPT ![p] =
                  [Idle EXCEPT !.pc = "validate_status", !.op = "update",
                               !.order = o, !.status = order[o].status,
                               !.value = value]]
    /\ calls' = calls + 1
    /\ returned' = NoReturn
    /\ UNCHANGED <<now, stock, res, hist, shopVars>>

\* validate_status on the loaded instance, then the serializer saves it
validate_status(p) ==
    /\ proc[p].pc = "validate_status"
    /\ IF proc[p].value \notin valid_transitions(proc[p].status)
       THEN /\ returned' = Ret("ValidationError", 0)
            /\ order' = order
       ELSE /\ returned' = Ret("status", 0)
            /\ order' = [order EXCEPT ![proc[p].order].status = proc[p].value]
    /\ proc' = [proc EXCEPT ![p] = Idle]
    /\ UNCHANGED <<now, stock, res, hist, calls, payment, coupon, cart, items,
                   price, placed>>

\* OrderViewSet.cancel, asked by the owner or by staff: get_object
cancel_get_object(p, o) ==
    /\ CanCall(p)
    /\ proc' = [proc EXCEPT ![p] =
                  [Idle EXCEPT !.pc = "cancel", !.op = "cancel", !.order = o,
                               !.status = order[o].status]]
    /\ calls' = calls + 1
    /\ returned' = NoReturn
    /\ UNCHANGED <<now, stock, res, hist, shopVars>>

\* the rest of cancel: the status test on the loaded instance, order.save()
cancel(p) ==
    /\ proc[p].pc = "cancel"
    /\ IF proc[p].status \in {"DELIVERED", "CANCELED"}
       THEN /\ returned' = Ret("HTTP_400_BAD_REQUEST", 0)
            /\ order' = order
       ELSE /\ returned' = Ret("status", 0)
            /\ order' = [order EXCEPT ![proc[p].order].status = "CANCELED"]
    /\ proc' = [proc EXCEPT ![p] = Idle]
    /\ UNCHANGED <<now, stock, res, hist, calls, payment, coupon, cart, items,
                   price, placed>>

\* OrderAdmin actions: queryset.update(status=...) on the selected order
queryset_update(o, status) ==
    /\ order' = [order EXCEPT ![o].status = status]
    /\ returned' = NoReturn
    /\ UNCHANGED <<now, stock, res, proc, hist, calls, payment, coupon, cart,
                   items, price, placed>>

mark_as_processing(o) == queryset_update(o, "PROCESSING")

mark_as_shipped(o) == queryset_update(o, "SHIPPED")

mark_as_delivered(o) == queryset_update(o, "DELIVERED")

mark_as_canceled(o) == queryset_update(o, "CANCELED")

\* the product ids a request may name: those of the catalog and one that
\* names no product
ProductIds == Catalog \cup {3}

\* the items of a request: none, one, or two of different products
ItemLists ==
    {<<>>} \cup {<<a>> : a \in ProductIds}
           \cup {s \in {<<a, b>> : a \in ProductIds, b \in ProductIds} :
                    s[1] # s[2]}

\* an Order row just inserted: no OrderItem rows yet
NewPlaced == [lines |-> <<>>, subtotal |-> 0]

\* OrderItem.save: total_price = unit_price * quantity (quantity 1 here)
NewOrderItem(prod) ==
    [product |-> prod, quantity |-> 1,
     unit_price |-> price_at_time(price[prod]),
     total_price |-> price_at_time(price[prod])]

\* serializer.is_valid() runs validate_items; then serializer.save(**kwargs)
\* calls create(validated_data) with the kwargs merged into validated_data:
\* OrderViewSet.perform_create passes user (kwarg = "user"), a caller of
\* serializer.save() passes nothing (kwarg = "none")
validate_items(p, items_data, kwarg) ==
    /\ CanCall(p)
    /\ IF items_data = <<>>
       THEN /\ returned' = Ret("ValidationError", 0)
            /\ UNCHANGED proc
       ELSE /\ returned' = NoReturn
            /\ proc' = [proc EXCEPT ![p] =
                          [Idle EXCEPT !.pc = "Order.objects.create",
                                       !.op = "create", !.loaded = items_data,
                                       !.value = kwarg]]
    /\ calls' = calls + 1
    /\ UNCHANGED <<now, stock, res, hist, shopVars>>

\* order = Order.objects.create(user=user, shipping_address_id=...,
\* **validated_data): a TypeError when validated_data holds user as well
Order_objects_create(p) ==
    /\ proc[p].pc = "Order.objects.create"
    /\ IF proc[p].value = "user"
       THEN /\ returned' = Ret("TypeError", 0)
            /\ proc' = [proc EXCEPT ![p] = Idle]
            /\ UNCHANGED placed
       ELSE /\ returned' = NoReturn
            /\ placed' = Append(placed, NewPlaced)
            /\ proc' = [proc EXCEPT ![p].pc = "for item_data",
                                    ![p].order = Len(placed) + 1]
    /\ UNCHANGED <<now, stock, res, hist, calls, order, payment, coupon, cart,
                   items, price>>

\* one turn of "for item_data in items_data": Product.objects.get raises
\* Product.DoesNotExist for an unknown id; OrderItem.objects.create inserts
\* the line and, in OrderItem.save, recalculates the order
create_item(p) ==
    /\ proc[p].pc = "for item_data"
    /\ LET prod == Head(proc[p].loaded)
           rest == Tail(proc[p].loaded)
           o == proc[p].order
       IN IF prod \notin Catalog
          THEN /\ returned' = Ret("DoesNotExist", 0)
               /\ proc' = [proc EXCEPT ![p] = Idle]
               /\ UNCHANGED placed
          ELSE /\ returned' = NoReturn
               /\ placed' = [placed EXCEPT
                                ![o].lines = Append(@, NewOrderItem(prod)),
                                ![o].subtotal =
                                    @ + NewOrderItem(prod).total_price]
               /\ proc' = [proc EXCEPT ![p].loaded = rest,
                                       ![p].pc = IF rest = <<>>
                                                 THEN "order.calculate_totals"
                                                 ELSE "for item_data"]
    /\ UNCHANGED <<now, stock, res, hist, calls, order, payment, coupon, cart,
                   items, price>>

\* order.calculate_totals(); return order
create_return(p) ==
    /\ proc[p].pc = "order.calculate_totals"
    /\ returned' = Ret("Order", 0)
    /\ proc' = [proc EXCEPT ![p] = Idle]
    /\ UNCHANGED <<now, stock, res, hist, calls, shopVars>>

\* ----------------------------------------------------------------- Payment
\* PaymentViewSet.mark_as_paid / mark_as_refunded: get_object loads the payment
Payment_get_object(p, pay, op) ==
    /\ CanCall(p)
    /\ proc' = [proc EXCEPT ![p] =
                  [Idle EXCEPT !.pc = op, !.op = "payment", !.order = pay,
                               !.status = payment[pay].status]]
    /\ calls' = calls + 1
    /\ returned' = NoReturn
    /\ UNCHANGED <<now, stock, res, hist, shopVars>>

\* Payment.mark_as_paid on the loaded instance, up to self.save()
mark_as_paid(p) ==
    /\ proc[p].pc = "mark_as_paid"
    /\ IF proc[p].status = "PENDING"
       THEN /\ payment' = [payment EXCEPT ![proc[p].order].status = "PAID"]
            /\ proc' = [proc EXCEPT ![p].pc = "self.order",
                                    ![p].value = "PAID"]
            /\ returned' = NoReturn
       ELSE /\ payment' = payment
            /\ proc' = [proc EXCEPT ![p] = Idle]
            /\ returned' = Ret("False", 0)
    /\ UNCHANGED <<now, stock, res, hist, calls, order, coupon, cart, items,
                   price, placed>>

\* Payment.mark_as_refunded on the loaded instance, up to self.save()
mark_as_refunded(p) ==
    /\ proc[p].pc = "mark_as_refunded"
    /\ IF proc[p].status = "PAID"
       THEN /\ payment' = [payment EXCEPT ![proc[p].order].status = "REFUNDED"]
            /\ proc' = [proc EXCEPT ![p].pc = "self.order",
                                    ![p].value = "CANCELED"]
            /\ returned' = NoReturn
       ELSE /\ payment' = payment
            /\ proc' = [proc EXCEPT ![p] = Idle]
            /\ returned' = Ret("False", 0)
    /\ UNCHANGED <<now, stock, res, hist, calls, order, coupon, cart, items,
                   price, placed>>

\* if self.order: the first use of self.order fetches the Order row
Payment_order(p) ==
    /\ proc[p].pc = "self.order"
    /\ proc' = [proc EXCEPT ![p].pc = "self.order.save",
                            ![p].order = payment[proc[p].order].order,
                            ![p].status = order[payment[proc[p].order].order].status]
    /\ returned' = NoReturn
    /\ UNCHANGED <<now, stock, res, hist, calls, shopVars>>

\* self.order.status = 'PAID' (or 'CANCELED'); self.order.save(); return True
Payment_order_save(p) ==
    /\ proc[p].pc = "self.order.save"
    /\ order' = [order EXCEPT ![proc[p].order].status = proc[p].value]
    /\ proc' = [proc EXCEPT ![p] = Idle]
    /\ returned' = Ret("True", 0)
    /\ UNCHANGED <<now, stock, res, hist, calls, payment, coupon, cart, items,
                   price, placed>>

\* -------------------------------------------------------------------- Cart
\* the line of the shopper's cart for a product: unique_together (cart, product)
CartLine(prod) == IF prod = 2 THEN 3 ELSE 1

\* mutant: the line's old reservation is left as it is
Unreleased(rows, prod, item) == rows

\* release_stock_reservation(cart_item=...) run to its end at once
Released(rows, prod, item) ==
    [i \in DOMAIN rows |->
        IF ReleaseFilter(rows[i], prod, item, None)
        THEN [rows[i] EXCEPT !.status = "RELEASED"]
        ELSE rows[i]]

\* StockReservation.cart_item is on_delete=CASCADE: the rows of deleted lines
\* are deleted with them (a deleted row keeps its place here, as DELETED)
Cascade(rows, lines) ==
    [i \in DOMAIN rows |->
        IF rows[i].cart_item \in lines
        THEN [rows[i] EXCEPT !.status = "DELETED"]
        ELSE rows[i]]

\* sum(item.total_price for item in self.items.all())
RECURSIVE SumTotals(_, _)
SumTotals(rows, lines) ==
    IF lines = {} THEN 0
    ELSE LET i == CHOOSE j \in lines : TRUE
         IN rows[i].total_price + SumTotals(rows, lines \ {i})

Subtotal(rows) == SumTotals(rows, CartLines)

\* Cart.calculate_totals: the total of a cart instance for a subtotal
Total(inst, sub, t) ==
    IF inst.coupon # None /\ is_valid(coupon, t)
    THEN apply_discount(coupon, sub)
    ELSE sub

\* what a DecimalField with decimal_places=2 stores of a Decimal: the
\* nearest cent, and either neighbour when it lies halfway (the database
\* backend decides)
Quantized(x) ==
    LET rem == x % Cent
        low == x - rem
    IN IF rem * 2 < Cent THEN {low}
       ELSE IF rem * 2 > Cent THEN {low + Cent}
       ELSE {low, low + Cent}

AddingItems == {p \in Procs : proc[p].op = "add_item"}

\* mutant: what the transaction wrote stays when an exception leaves it
not_rolled_back(before, written) == written

\* transaction.atomic of QuerySet.update_or_create: an exception that
\* leaves the block undoes the rows written in it
rolled_back(before, written) == before

\* CartViewSet.add_item: get_object loads (or creates) the cart
add_item_get_object(p, prod, q) ==
    /\ CanCall(p)
    /\ Len(res) + Cardinality(AddingItems) < MaxRes
    /\ proc' = [proc EXCEPT ![p] =
                  [Idle EXCEPT !.pc = "Product.objects.get", !.op = "add_item",
                               !.product = prod, !.quantity = q,
                               !.cart_item = CartLine(prod), !.cart = cart]]
    /\ calls' = calls + 1
    /\ returned' = NoReturn
    /\ UNCHANGED <<now, stock, res, hist, shopVars>>

\* product = Product.objects.get(id=product_id): the instance holds the
\* stock and the prices of this moment, from which price_at_time is taken
add_item_product(p) ==
    /\ proc[p].pc = "Product.objects.get"
    /\ proc' = [proc EXCEPT ![p].pc = "available_stock",
                            ![p].stock = stock[proc[p].product],
                            ![p].price = price_at_time(price[proc[p].product])]
    /\ returned' = NoReturn
    /\ UNCHANGED <<now, stock, res, hist, calls, shopVars>>

\* available = product.available_stock; if quantity > available: 400
add_item_available(p) ==
    /\ proc[p].pc = "available_stock"
    /\ IF proc[p].quantity >
            available_stock(proc[p].stock, proc[p].product, res, now)
       THEN /\ proc' = [proc EXCEPT ![p] = Idle]
            /\ returned' = Ret("HTTP_400_BAD_REQUEST", 0)
       ELSE /\ proc' = [proc EXCEPT ![p].pc = "update_or_create"]
            /\ returned' = NoReturn
    /\ UNCHANGED <<now, stock, res, hist, calls, shopVars>>

\* CartItem.objects.update_or_create(cart, product, defaults): one
\* transaction around the lookup and CartItem.save, which releases the old
\* reservation when the quantity changed, reserves the new quantity, writes
\* the line and recalculates the cart; a ValueError of reserve_stock leaves
\* the transaction, which undoes what it did
update_or_create(p) ==
    /\ proc[p].pc = "update_or_create"
    /\ LET prod == proc[p].product
           q == proc[p].quantity
           line == proc[p].cart_item
           is_new == items[line] = NoLine
           old_quantity == items[line].quantity
           changed == is_new \/ q # old_quantity
           released == IF changed /\ ~is_new /\ old_quantity > 0
                       THEN Released(res, prod, line)
                       ELSE res
           stk == IF is_new THEN proc[p].stock ELSE stock[prod]
           short == changed /\ q > available_stock(stk, prod, released, now)
           saved == [items EXCEPT ![line] =
                        [quantity |-> q, price_at_time |-> proc[p].price,
                         total_price |-> proc[p].price * q]]
           inst == IF is_new THEN proc[p].cart ELSE cart
       IN IF short
          THEN /\ returned' = Ret("ValueError", 0)
               /\ res' = rolled_back(res, released)
               /\ UNCHANGED <<items, cart>>
          ELSE /\ res' = IF changed
                         THEN Append(released,
                                     NewReservation(prod, line, None, q, now))
                         ELSE res
               /\ items' = saved
               /\ \E t \in Quantized(Total(inst, Subtotal(saved), now)) :
                     cart' = [inst EXCEPT !.subtotal = Subtotal(saved),
                                          !.total = t]
               /\ returned' = IF is_new THEN Ret("HTTP_201_CREATED", 0)
                              ELSE Ret("HTTP_200_OK", 0)
    /\ proc' = [proc EXCEPT ![p] = Idle]
    /\ hist' = NoHist
    /\ UNCHANGED <<now, stock, calls, order, payment, coupon, price, placed>>

\* CartViewSet.remove_item: get_object
remove_item_get_object(p, prod) ==
    /\ CanCall(p)
    /\ proc' = [proc EXCEPT ![p] =
                  [Idle EXCEPT !.pc = "CartItem.objects.get",
                               !.op = "remove_item", !.product = prod,
                               !.cart_item = CartLine(prod)]]
    /\ calls' = calls + 1
    /\ returned' = NoReturn
    /\ UNCHANGED <<now, stock, res, hist, shopVars>>

\* cart_item = CartItem.objects.get(cart=cart, product_id=product_id)
remove_item_get(p) ==
    /\ proc[p].pc = "CartItem.objects.get"
    /\ IF items[proc[p].cart_item] = NoLine
       THEN /\ proc' = [proc EXCEPT ![p] = Idle]
            /\ returned' = Ret("HTTP_404_NOT_FOUND", 0)
       ELSE /\ proc' = [proc EXCEPT ![p].pc = "filter"]
            /\ returned' = NoReturn
    /\ UNCHANGED <<now, stock, res, hist, calls, shopVars>>

\* CartItem.delete: release_stock_reservation(cart_item=self) evaluates its
\* queryset
delete_filter(p) ==
    /\ proc[p].pc = "filter"
    /\ proc[p].op = "remove_item"
    /\ LET rows == SelectSeq(Objects(res), LAMBDA o :
                       ReleaseFilter(o.row, proc[p].product,
                                     proc[p].cart_item, None))
       IN proc' = [proc EXCEPT ![p].loaded = rows,
                               ![p].pc = IF rows = <<>> THEN "self.cart"
                                         ELSE "save"]
    /\ returned' = NoReturn
    /\ UNCHANGED <<now, stock, res, hist, calls, shopVars>>

\* ... and releases each reservation it found
delete_release(p) ==
    /\ proc[p].pc = "save"
    /\ proc[p].op = "remove_item"
    /\ LET o == Head(proc[p].loaded)
           rest == Tail(proc[p].loaded)
       IN /\ res' = IF o.row.status = "RESERVED"
                    THEN [res EXCEPT ![o.id] =
                             [o.row EXCEPT !.status = "RELEASED"]]
                    ELSE res
          /\ proc' = [proc EXCEPT ![p].loaded = rest,
                                  ![p].pc = IF rest = <<>> THEN "self.cart"
                                            ELSE "save"]
    /\ returned' = NoReturn
    /\ hist' = NoHist
    /\ UNCHANGED <<now, stock, calls, shopVars>>

\* cart = self.cart: the first use fetches the Cart row
delete_cart(p) ==
    /\ proc[p].pc = "self.cart"
    /\ proc' = [proc EXCEPT ![p].pc = "delete", ![p].cart = cart]
    /\ returned' = NoReturn
    /\ UNCHANGED <<now, stock, res, hist, calls, shopVars>>

\* super().delete(): the line and, by cascade, its reservations
delete(p) ==
    /\ proc[p].pc = "delete"
    /\ items' = [items EXCEPT ![proc[p].cart_item] = NoLine]
    /\ res' = Cascade(res, {proc[p].cart_item})
    /\ proc' = [proc EXCEPT ![p].pc = "items.all"]
    /\ returned' = NoReturn
    /\ hist' = NoHist
    /\ UNCHANGED <<now, stock, calls, order, payment, coupon, cart, price, placed>>

\* CartViewSet.clear: get_object
clear_get_object(p) ==
    /\ CanCall(p)
    /\ proc' = [proc EXCEPT ![p] =
                  [Idle EXCEPT !.pc = "items.all.delete", !.op = "clear",
                               !.cart = cart]]
    /\ calls' = calls + 1
    /\ returned' = NoReturn
    /\ UNCHANGED <<now, stock, res, hist, shopVars>>

\* mutant: the clear gives the units its lines held back to Product.stock
clear_restocking(p) ==
    /\ proc[p].pc = "items.all.delete"
    /\ items' = [i \in CartLines |-> NoLine]
    /\ res' = Cascade(res, CartLines)
    /\ stock' = [prod \in Catalog |->
                    stock[prod] + SumQuantity(SelectSeq(res, LAMBDA r :
                        r.cart_item \in CartLines /\ IsActive(r, prod, now)))]
    /\ proc' = [proc EXCEPT ![p].pc = "items.all"]
    /\ returned' = NoReturn
    /\ hist' = NoHist
    /\ UNCHANGED <<now, calls, order, payment, coupon, cart, price, placed>>

\* cart.items.all().delete(): every line and, by cascade, its reservations
clear(p) ==
    /\ proc[p].pc = "items.all.delete"
    /\ items' = [i \in CartLines |-> NoLine]
    /\ res' = Cascade(res, CartLines)
    /\ proc' = [proc EXCEPT ![p].pc = "items.all"]
    /\ returned' = NoReturn
    /\ hist' = NoHist
    /\ UNCHANGED <<now, stock, calls, order, payment, coupon, cart, price, placed>>

\* Cart.calculate_totals on the cart instance: the query for the lines
calculate_totals(p) ==
    /\ proc[p].pc = "items.all"
    /\ proc' = [proc EXCEPT ![p].pc = "cart.save",
                            ![p].subtotal = Subtotal(items)]
    /\ returned' = NoReturn
    /\ UNCHANGED <<now, stock, res, hist, calls, shopVars>>

\* ... the coupon, and self.save(), which writes the instance's fields
calculate_totals_save(p) ==
    /\ proc[p].pc = "cart.save"
    /\ \E t \in Quantized(Total(proc[p].cart, proc[p].subtotal, now)) :
          cart' = [proc[p].cart EXCEPT !.subtotal = proc[p].subtotal,
                                      !.total = t]
    /\ returned' = IF proc[p].op = "clear" THEN Ret("HTTP_200_OK", 0)
                   ELSE Ret("HTTP_204_NO_CONTENT", 0)
    /\ proc' = [proc EXCEPT ![p] = Idle]
    /\ UNCHANGED <<now, stock, res, hist, calls, order, payment, coupon,
                   items, price, placed>>

\* ----------------------------------------------------------- specification
\* the coupons an administrator may have created: CouponAdmin validates
\* each field on its own, so both discounts may be set, or neither
Coupons ==
    [discount_value : {0, Money(300, 0)}, discount_percentage : {0, 10, 100},
     max_uses : 1..MaxUses, current_uses : {0}, valid_until : {ValidUntil},
     active : BOOLEAN]

TenPercent ==
    [discount_value |-> 0, discount_percentage |-> 10, max_uses |-> 1,
     current_uses |-> 0, valid_until |-> ValidUntil, active |-> TRUE]

\* the amounts a caller asks about
Amounts == {0, Money(0, 5), Money(200, 0)}

\* the one coupon there is
CouponIds == {1}

\* an order just created, with the coupon c or none
NewOrder(c) == [status |-> "PENDING", coupon |-> c]

\* a catalog with stock, an unpaid payment, an empty cart
Start ==
    /\ now = 0
    /\ stock = [prod \in Catalog |-> InitStock]
    /\ res = <<>>
    /\ proc = [p \in Procs |-> Idle]
    /\ returned = NoReturn
    /\ hist = NoHist
    /\ calls = 0
    /\ payment = [o \in Orders |-> [status |-> "PENDING", order |-> o]]
    /\ items = [i \in CartLines |-> NoLine]
    /\ placed = <<>>

\* list prices, and a cart that has no coupon
ListPrices ==
    /\ price = [prod \in Catalog |-> Listed(Money(50, 0))]
    /\ cart = NoCart

Init ==
    /\ Start
    /\ ListPrices
    /\ order = [o \in Orders |-> NewOrder(None)]
    /\ coupon = TenPercent

\* (product, cart_item, order) of a call on behalf of a cart line
LineArgs == {<<ItemProduct(i), i, None>> : i \in CartItems}
\* ... of an order, or of nobody
OtherArgs == {<<prod, None, o>> : prod \in Products, o \in Orders \cup {None}}

Next ==
    \/ \E p \in Procs, h \in LineArgs, q \in Quantities :
          reserve_stock_call(p, h[1], q, h[2], h[3])
    \/ \E p \in Procs : reserve_stock_check(p)
    \/ \E p \in Procs : reserve_stock_create(p)
    \/ \E p \in Procs, h \in LineArgs \cup OtherArgs :
          release_stock_reservation_call(p, h[1], h[2], h[3])
    \/ \E p \in Procs : release_stock_reservation_filter(p)
    \/ \E p \in Procs : release(p)
    \/ \E p \in Procs, prod \in Products, o \in Orders, q \in Quantities :
          convert_reservation_to_sale_call(p, prod, o, q)
    \/ \E p \in Procs : convert_reservation_to_sale_filter(p)
    \/ \E p \in Procs : convert_reservation_to_sale_save(p)
    \/ \E p \in Procs : convert_reservation_to_sale_stock(p)
    \/ expire_old_reservations
    \/ get_queryset
    \/ Tick

Spec == Init /\ [][Next]_vars

\* the same ledger with reserve_stock as its only operation
NextReserve ==
    \/ \E p \in Procs, h \in LineArgs, q \in Quantities :
          reserve_stock_call(p, h[1], q, h[2], h[3])
    \/ \E p \in Procs : reserve_stock_check(p)
    \/ \E p \in Procs : reserve_stock_create(p)
    \/ Tick

SpecReserve == Init /\ [][NextReserve]_vars

\* the life of the reservations of one cart line: made, released,
\* converted for the order, swept
NextSweep ==
    \/ \E p \in Procs, q \in Quantities :
          reserve_stock_call(p, 1, q, 1, None)
    \/ \E p \in Procs : reserve_stock_check(p)
    \/ \E p \in Procs : reserve_stock_create(p)
    \/ \E p \in Procs : release_stock_reservation_call(p, 1, 1, None)
    \/ \E p \in Procs : release_stock_reservation_filter(p)
    \/ \E p \in Procs : release(p)
    \/ \E p \in Procs, o \in Orders :
          convert_reservation_to_sale_call(p, 1, o, 1)
    \/ \E p \in Procs : convert_reservation_to_sale_filter(p)
    \/ \E p \in Procs : convert_reservation_to_sale_save(p)
    \/ \E p \in Procs : convert_reservation_to_sale_stock(p)
    \/ expire_old_reservations
    \/ Tick

\* ... with a clock that keeps advancing up to MaxTime and a sweeper task
\* that keeps being run: neither can stay possible forever without
\* happening
SpecSweep ==
    /\ Init
    /\ [][NextSweep]_vars
    /\ WF_vars(Tick)
    /\ WF_vars(expire_old_reservations)

\* the Coupon Engine on its own: any coupon, callers of use() and release()
InitCoupon ==
    /\ Start
    /\ ListPrices
    /\ order = [o \in Orders |-> NewOrder(None)]
    /\ coupon \in Coupons

NextCoupon ==
    \/ \E amount \in Amounts : validate(amount)
    \/ \E p \in Procs, op \in {"use", "release"} : Coupon_get(p, op)
    \/ \E p \in Procs : use(p)
    \/ \E p \in Procs : Coupon_release(p)
    \/ Tick

SpecCoupon == InitCoupon /\ [][NextCoupon]_vars

\* the Order Engine: an order with or without a coupon and its payment
InitOrder ==
    /\ Start
    /\ ListPrices
    /\ order \in [Orders -> {NewOrder(c) : c \in CouponIds \cup {None}}]
    /\ coupon = TenPercent

\* (product, cart_item, order) of a reservation held for an order
OrderArgs == {<<prod, None, o>> : prod \in Products, o \in Orders}

NextOrder ==
    \/ \E p \in Procs, o \in Orders, value \in OrderStatus :
          update_get_object(p, o, value)
    \/ \E p \in Procs : validate_status(p)
    \/ \E p \in Procs, o \in Orders : cancel_get_object(p, o)
    \/ \E p \in Procs : cancel(p)
    \/ \E o \in Orders : mark_as_processing(o)
    \/ \E o \in Orders : mark_as_shipped(o)
    \/ \E o \in Orders : mark_as_delivered(o)
    \/ \E o \in Orders : mark_as_canceled(o)
    \/ \E p \in Procs, pay \in Orders,
          op \in {"mark_as_paid", "mark_as_refunded"} :
          Payment_get_object(p, pay, op)
    \/ \E p \in Procs : mark_as_paid(p)
    \/ \E p \in Procs : mark_as_refunded(p)
    \/ \E p \in Procs : Payment_order(p)
    \/ \E p \in Procs : Payment_order_save(p)

SpecOrder == InitOrder /\ [][NextOrder]_vars

\* what a sale and its cancellation touch: the reservations of the owner's
\* cart line and of the order itself, the uses of the order's coupon, the
\* payment callbacks and the cancel request
NextSale ==
    \/ \E p \in Procs, h \in LineArgs \cup OrderArgs, q \in Quantities :
          reserve_stock_call(p, h[1], q, h[2], h[3])
    \/ \E p \in Procs : reserve_stock_check(p)
    \/ \E p \in Procs : reserve_stock_create(p)
    \/ \E p \in Procs : Coupon_get(p, "use")
    \/ \E p \in Procs : use(p)
    \/ \E p \in Procs, pay \in Orders,
          op \in {"mark_as_paid", "mark_as_refunded"} :
          Payment_get_object(p, pay, op)
    \/ \E p \in Procs : mark_as_paid(p)
    \/ \E p \in Procs : mark_as_refunded(p)
    \/ \E p \in Procs : Payment_order(p)
    \/ \E p \in Procs : Payment_order_save(p)
    \/ \E p \in Procs, o \in Orders : cancel_get_object(p, o)
    \/ \E p \in Procs : cancel(p)

SpecSale == InitOrder /\ [][NextSale]_vars

\* the Cart Engine: the shopper's cart with or without the coupon, two
\* products, one of them at a price that 10% does not divide into cents
InitCart ==
    /\ Start
    /\ order = [o \in Orders |-> NewOrder(None)]
    /\ coupon = TenPercent
    /\ cart \in {[NoCart EXCEPT !.coupon = c] : c \in CouponIds \cup {None}}
    /\ price \in {[prod \in Catalog |->
                      Listed(IF prod = 1 THEN Money(100, 0) ELSE second)] :
                  second \in {Money(50, 0), Money(49, 99)}}

NextCart ==
    \/ \E p \in Procs, prod \in Catalog, q \in Quantities :
          add_item_get_object(p, prod, q)
    \/ \E p \in Procs : add_item_product(p)
    \/ \E p \in Procs : add_item_available(p)
    \/ \E p \in Procs : update_or_create(p)
    \/ \E p \in Procs, prod \in Catalog : remove_item_get_object(p, prod)
    \/ \E p \in Procs : remove_item_get(p)
    \/ \E p \in Procs : delete_filter(p)
    \/ \E p \in Procs : delete_release(p)
    \/ \E p \in Procs : delete_cart(p)
    \/ \E p \in Procs : delete(p)
    \/ \E p \in Procs : clear_get_object(p)
    \/ \E p \in Procs : clear(p)
    \/ \E p \in Procs : calculate_totals(p)
    \/ \E p \in Procs : calculate_totals_save(p)
    \/ Tick

SpecCart == InitCart /\ [][NextCart]_vars

\* every operation that works on a product with stock, on one product: the
\* ledger's calls for another user's line, the shopper's cart requests,
\* order creation, the order's status changes, the sweep
NextStock ==
    \/ \E p \in Procs : reserve_stock_call(p, 1, 1, 2, None)
    \/ \E p \in Procs : reserve_stock_check(p)
    \/ \E p \in Procs : reserve_stock_create(p)
    \/ \E p \in Procs : release_stock_reservation_call(p, 1, 2, None)
    \/ \E p \in Procs : release_stock_reservation_filter(p)
    \/ \E p \in Procs : release(p)
    \/ \E p \in Procs, o \in Orders :
          convert_reservation_to_sale_call(p, 1, o, 1)
    \/ \E p \in Procs : convert_reservation_to_sale_filter(p)
    \/ \E p \in Procs : convert_reservation_to_sale_save(p)
    \/ \E p \in Procs : convert_reservation_to_sale_stock(p)
    \/ expire_old_reservations
    \/ \E p \in Procs : add_item_get_object(p, 1, 1)
    \/ \E p \in Procs : add_item_product(p)
    \/ \E p \in Procs : add_item_available(p)
    \/ \E p \in Procs : update_or_create(p)
    \/ \E p \in Procs : remove_item_get_object(p, 1)
    \/ \E p \in Procs : remove_item_get(p)
    \/ \E p \in Procs : delete_filter(p)
    \/ \E p \in Procs : delete_release(p)
    \/ \E p \in Procs : delete_cart(p)
    \/ \E p \in Procs : delete(p)
    \/ \E p \in Procs : clear_get_object(p)
    \/ \E p \in Procs : clear(p)
    \/ \E p \in Procs : calculate_totals(p)
    \/ \E p \in Procs : calculate_totals_save(p)
    \/ \E p \in Procs : validate_items(p, <<1>>, "none")
    \/ \E p \in Procs : Order_objects_create(p)
    \/ \E p \in Procs : create_item(p)
    \/ \E p \in Procs : create_return(p)
    \/ \E p \in Procs, o \in Orders : update_get_object(p, o, "PAID")
    \/ \E p \in Procs : validate_status(p)
    \/ \E p \in Procs, o \in Orders : cancel_get_object(p, o)
    \/ \E p \in Procs : cancel(p)
    \/ \E o \in Orders : mark_as_shipped(o)
    \/ Tick

SpecStock == Init /\ [][NextStock]_vars

\* order creation: requests through OrderViewSet and calls of the
\* serializer on its own
NextCreate ==
    \/ \E p \in Procs, items_data \in ItemLists, kwarg \in {"user", "none"} :
          validate_items(p, items_data, kwarg)
    \/ \E p \in Procs : Order_objects_create(p)
    \/ \E p \in Procs : create_item(p)
    \/ \E p \in Procs : create_return(p)

SpecCreate == Init /\ [][NextCreate]_vars

\* one line of the cart under concurrent requests: a product with or
\* without a discount price, the shopper's requests for its line, another
\* user's line of the same product reserving beside them, the sweep
InitLine ==
    /\ Start
    /\ order = [o \in Orders |-> NewOrder(None)]
    /\ coupon = TenPercent
    /\ cart = NoCart
    /\ price \in {[prod \in Catalog |->
                      IF prod = 1 THEN first ELSE Listed(Money(50, 0))] :
                  first \in {Listed(Money(100, 0)),
                             [price |-> Money(100, 0),
                              discount_price |-> Money(80, 0)],
                             [price |-> Money(100, 0),
                              discount_price |-> Money(120, 0)]}}

\* (product, cart_item, order) of the other user's line
OtherLineArgs == {<<ItemProduct(i), i, None>> : i \in CartItems \ CartLines}

NextLine ==
    \/ \E p \in Procs, prod \in Products, q \in Quantities :
          add_item_get_object(p, prod, q)
    \/ \E p \in Procs : add_item_product(p)
    \/ \E p \in Procs : add_item_available(p)
    \/ \E p \in Procs : update_or_create(p)
    \/ \E p \in Procs, prod \in Products : remove_item_get_object(p, prod)
    \/ \E p \in Procs : remove_item_get(p)
    \/ \E p \in Procs : delete_filter(p)
    \/ \E p \in Procs : delete_release(p)
    \/ \E p \in Procs : delete_cart(p)
    \/ \E p \in Procs : delete(p)
    \/ \E p \in Procs : calculate_totals(p)
    \/ \E p \in Procs : calculate_totals_save(p)
    \/ \E p \in Procs, h \in OtherLineArgs, q \in Quantities :
          reserve_stock_call(p, h[1], q, h[2], h[3])
    \/ \E p \in Procs : reserve_stock_check(p)
    \/ \E p \in Procs : reserve_stock_create(p)
    \/ expire_old_reservations
    \/ Tick

SpecLine == InitLine /\ [][NextLine]_vars

\* ============================================================== properties
Ids == DOMAIN res

\* the rows that count against a product: RESERVED, expiry in the future
Counted(prod) ==
    {i \in Ids : /\ res[i].product = prod
                 /\ res[i].status = "RESERVED"
                 /\ res[i].expires_at > now}

RECURSIVE QuantityOf(_)
QuantityOf(ids) ==
    IF ids = {} THEN 0
    ELSE LET i == CHOOSE j \in ids : TRUE
         IN res[i].quantity + QuantityOf(ids \ {i})

\* available stock as a fresh read returns it after the step
AvailableStockNext(prod) == available_stock(stock'[prod], prod, res', now')

\* C1: for every product, the quantities of its RESERVED reservations with
\* expiry in the future add up to at most the product's stock, whatever the
\* interleaving of concurrent reserve_stock calls.
NoOverselling ==
    \A prod \in Products : QuantityOf(Counted(prod)) <= stock[prod]

\* C2: a reservation that has reached CONVERTED, EXPIRED or RELEASED never
\* changes status again: of convert, expire and release exactly one takes
\* effect on a reservation.
TerminalIsFinal ==
    [][\A i \in Ids :
          res[i].status \in Terminal => res'[i].status = res[i].status]_vars

\* C3: convert_reservation_to_sale never marks CONVERTED a reservation whose
\* expiry has already passed, and the sweep never sets a CONVERTED
\* reservation to EXPIRED.
NoConvertAfterExpiry ==
    [][\A i \in Ids :
          /\ (res[i].status # "CONVERTED" /\ res'[i].status = "CONVERTED")
                => ~(res[i].expires_at < now)
          /\ res[i].status = "CONVERTED" => res'[i].status # "EXPIRED"]_vars

\* worker p's reserve_stock creates its row in this step
Creates(p) == proc[p].pc = "create" /\ proc'[p].pc = "idle"

\* C4: a successful reserve_stock(P, q) with 1 <= q <= AvailableStock(P)
\* creates one RESERVED reservation of q, and AvailableStock(P) read right
\* after it is exactly q less than before.
ReserveTakesExactlyQ ==
    [][\A p \in Procs :
          (/\ Creates(p)
           /\ 1 <= proc[p].quantity
           /\ proc[p].quantity <= AvailableStock(proc[p].product))
          => /\ Len(res') = Len(res) + 1
             /\ \A i \in Ids : res'[i] = res[i]
             /\ res'[Len(res')].status = "RESERVED"
             /\ res'[Len(res')].quantity = proc[p].quantity
             /\ res'[Len(res')].product = proc[p].product
             /\ AvailableStockNext(proc[p].product)
                  = AvailableStock(proc[p].product) - proc[p].quantity]_vars

\* a reservation has just been made out of sufficient stock
ReservedOutOfStock ==
    /\ returned.kind = "Reservation"
    /\ hist.product # None
    /\ res[Len(res)].quantity <= hist.before
    /\ AvailableStock(hist.product) = hist.before - res[Len(res)].quantity

\* worker p's reserve_stock tests the available stock in this step
Checks(p) == proc[p].pc = "check" /\ proc'[p].pc # "check"

\* C5: reserve_stock(P, q) fails with InsufficientStock exactly when q exceeds
\* the available stock of the product; it fails in that step, without
\* waiting, and creates no reservation and changes no stock and no
\* reservation.
ReserveFailsFast ==
    [][\A p \in Procs :
          Checks(p) =>
            LET q == proc[p].quantity
                avail == Max(0, proc[p].stock
                                 - QuantityOf(Counted(proc[p].product)))
            IN /\ (returned'.kind = "InsufficientStock") <=> (q > avail)
               /\ proc[p].stock = stock[proc[p].product]
                     => avail = AvailableStock(proc[p].product)
               /\ q > avail => /\ proc'[p].pc = "idle"
                               /\ res' = res
                               /\ stock' = stock
               /\ q <= avail => proc'[p].pc = "create"]_vars

\* a reserve_stock has just failed although the product has stock
ReserveRefused ==
    /\ returned.kind = "InsufficientStock"
    /\ Len(res) >= 1
    /\ \E prod \in Products : stock[prod] > 0 /\ AvailableStock(prod) < MaxQty

\* the rows of the holder that worker p's release call names
HolderRows(p) ==
    {i \in Ids : /\ res[i].product = proc[p].product
                 /\ IF proc[p].cart_item # None
                    THEN res[i].cart_item = proc[p].cart_item
                    ELSE res[i].order = proc[p].order}

\* the rows of the holder of the reservation just made
HistRows ==
    {i \in Ids : /\ hist.product # None
                 /\ SameHolder(res[i], hist.product, hist.cart_item, hist.order)}

\* the reservation just made has been released by its holder, nothing else
\* having touched the ledger in between: no row of the holder is RESERVED
\* and available stock is what it was before the reservation
RoundTripDone ==
    /\ \A i \in HistRows : res[i].status # "RESERVED"
    /\ res[Len(res)].status = "RELEASED"
    /\ AvailableStock(hist.product) = hist.before

\* C6 as stated: Reserve followed by Release of the same holder restores the
\* available stock of before the reservation, for every holder.
RoundTrip == hist.released => RoundTripDone

\* C6 as amended: Reserve followed by Release of the same holder restores
\* the available stock of before the reservation when the holder held no
\* other unexpired RESERVED reservation of the product at that moment.
RoundTripOfSoleReservation ==
    (hist.released /\ hist.held = 0) => RoundTripDone

\* a sole reservation has been made and released again
SoleReservationReleased ==
    /\ hist.released
    /\ hist.held = 0
    /\ returned.kind = "True"
    /\ hist.before < stock[hist.product]
    /\ AvailableStock(hist.product) = hist.before

\* worker p's release call finds no RESERVED row of a holder that has rows
ReleasesNothing(p) ==
    /\ proc[p].op = "release"
    /\ proc[p].pc = "filter"
    /\ proc'[p].pc = "idle"
    /\ HolderRows(p) # {}
    /\ \A i \in HolderRows(p) : res[i].status \in Terminal

\* C7: Release for a holder whose reservations are all RELEASED, EXPIRED or
\* CONVERTED changes no reservation and no stock and returns false.
ReleaseIdempotent ==
    [][\A p \in Procs :
          ReleasesNothing(p) => /\ res' = res
                                /\ stock' = stock
                                /\ returned'.kind = "False"]_vars

\* C8: available stock is the stock minus the quantities of the RESERVED
\* reservations of the product with expiry strictly in the future, floored
\* at zero: an expired reservation stops counting without any sweep, and
\* CONVERTED, EXPIRED and RELEASED reservations never count.
AvailableStockIsStockMinusActive ==
    \A prod \in Products :
        LET free == stock[prod] - QuantityOf(Counted(prod))
        IN /\ AvailableStock(prod) = IF free > 0 THEN free ELSE 0
           /\ AvailableStock(prod) >= 0

\* an expired reservation no sweep has touched, beside a finished one, and
\* the whole stock is available
ExpiredUnsweptNotCounted ==
    /\ \E i \in Ids : res[i].status = "RESERVED" /\ res[i].expires_at <= now
    /\ \E i \in Ids : res[i].status \in Terminal
    /\ \E prod \in Products : stock[prod] > 0 /\ AvailableStock(prod) = stock[prod]

\* the step is a run of the sweep (the task or the admin's listing)
Sweeps == expire_old_reservations \/ get_queryset

\* C9: a sweep at time T sets to EXPIRED exactly the RESERVED reservations
\* with expiry < T and changes nothing else; a run that finds none changes
\* nothing and reports 0, and after any run none is left to find.
SweepExpiresExactlyThePast ==
    [][Sweeps =>
          /\ Len(res') = Len(res)
          /\ stock' = stock
          /\ \A i \in Ids :
                IF res[i].status = "RESERVED" /\ res[i].expires_at < now
                THEN res'[i] = [res[i] EXCEPT !.status = "EXPIRED"]
                ELSE res'[i] = res[i]
          /\ expire_old_reservations =>
                returned'.n = Cardinality({i \in Ids : res'[i] # res[i]})
          /\ \A i \in Ids :
                ~(res'[i].status = "RESERVED" /\ res'[i].expires_at < now')
          /\ (\A i \in Ids :
                ~(res[i].status = "RESERVED" /\ res[i].expires_at < now))
                => /\ res' = res
                   /\ expire_old_reservations => returned'.n = 0]_vars

\* a sweep has expired one reservation and left another one RESERVED
SweptOneOfTwo ==
    /\ returned.kind = "Expiraram"
    /\ returned.n = 1
    /\ \E i \in Ids : res[i].status = "EXPIRED" /\ res[i].expires_at < now
    /\ \E i \in Ids : res[i].status = "RESERVED" /\ res[i].expires_at >= now

\* the quantity of a product that the sweep of this step takes
SweptQuantity(prod) ==
    QuantityOf({i \in Ids : /\ res[i].product = prod
                            /\ res[i].status = "RESERVED"
                            /\ res'[i].status = "EXPIRED"})

\* C10 as stated: available stock read after a sweep exceeds the one read
\* just before it by the quantity of the swept reservations.
SweepRaisesAvailable ==
    [][Sweeps =>
          \A prod \in Products :
              AvailableStockNext(prod)
                  = AvailableStock(prod) + SweptQuantity(prod)]_vars

\* C10 as amended: available stock read after a sweep equals the one read
\* just before it: the swept reservations had stopped counting when their
\* expiry passed.
SweepKeepsAvailable ==
    [][Sweeps =>
          \A prod \in Products :
              AvailableStockNext(prod) = AvailableStock(prod)]_vars

\* a sweep has expired reservations of a product whose stock is all available
SweptAndAvailable ==
    /\ returned.kind = "Expiraram"
    /\ returned.n >= 1
    /\ \E i \in Ids : /\ res[i].status = "EXPIRED"
                      /\ AvailableStock(res[i].product) = stock[res[i].product]

\* worker p calls use() on the Coupon instance it loaded
Uses(p) == proc[p].pc = "use" /\ proc'[p].pc = "idle"

\* worker p calls release() on the Coupon instance it loaded
Releases(p) ==
    proc[p].pc = "release" /\ proc[p].op = "coupon" /\ proc'[p].pc = "idle"

\* C16: the stored current_uses of the coupon, and that of every loaded
\* instance, stays within 0..max_uses under every interleaving of use() and
\* release() calls; use() returns True exactly when its instance is active,
\* not past valid_until and below max_uses, and then stores the instance's
\* counter plus one; otherwise it stores nothing and returns False;
\* release() stores the instance's counter minus one, never less than zero.
CouponUsesBounded ==
    /\ [](/\ 0 <= coupon.current_uses
          /\ coupon.current_uses <= coupon.max_uses
          /\ \A p \in Procs :
                proc[p].op = "coupon" =>
                    /\ 0 <= proc[p].coupon.current_uses
                    /\ proc[p].coupon.current_uses <= proc[p].coupon.max_uses)
    /\ [][\A p \in Procs :
            LET c == proc[p].coupon
                usable == /\ c.active
                          /\ now <= c.valid_until
                          /\ c.current_uses < c.max_uses
            IN /\ Uses(p) =>
                    /\ (returned'.kind = "True") <=> usable
                    /\ usable =>
                         /\ coupon'.current_uses = c.current_uses + 1
                         /\ c = coupon =>
                              coupon'.current_uses = coupon.current_uses + 1
                    /\ ~usable => /\ coupon' = coupon
                                  /\ returned'.kind = "False"
               /\ Releases(p) =>
                    /\ coupon'.current_uses >= 0
                    /\ IF c.current_uses > 0
                       THEN coupon'.current_uses = c.current_uses - 1
                       ELSE coupon' = coupon]_vars

\* use() has just refused a coupon that is active and in time, because its
\* uses are exhausted
CouponExhausted ==
    /\ returned.kind = "False"
    /\ coupon.active
    /\ now <= coupon.valid_until
    /\ coupon.current_uses = coupon.max_uses
    /\ coupon.max_uses = MaxUses

\* C17: for every amount >= 0 the discounted amount is amount less
\* amount * percentage / 100 when the percentage is positive, also when a
\* fixed value is set as well, and amount less the fixed value otherwise;
\* the discount is held to the amount, so the result lies in 0..amount;
\* 10% of 200.00 gives 180.00 and a fixed 300 on 200.00 gives 0.00.
ApplyDiscountClamped ==
    [][\A amount \in Amounts :
          (validate(amount) /\ returned'.kind = "final_amount") =>
            LET pct == coupon.discount_percentage
                fixed == coupon.discount_value
                r == returned'.n
            IN /\ pct > 0 => r * 100 = amount * (100 - pct)
               /\ pct = 0 => r = IF fixed >= amount THEN 0 ELSE amount - fixed
               /\ 0 <= r
               /\ r <= amount
               /\ (pct = 10 /\ amount = Money(200, 0)) => r = Money(180, 0)
               /\ (pct = 0 /\ fixed = Money(300, 0) /\ amount = Money(200, 0))
                     => r = 0]_vars

\* 200.00 has just been discounted to 180.00 by a coupon of 10% that also
\* carries a fixed value
TenPercentOffTwoHundred ==
    /\ returned.kind = "final_amount"
    /\ returned.n = Money(180, 0)
    /\ coupon.discount_percentage = 10
    /\ coupon.discount_value = Money(300, 0)

\* worker p's status update validates and saves in this step
Validates(p) == proc[p].pc = "validate_status" /\ proc'[p].pc = "idle"

\* the transitions of the order state machine
Allowed ==
    {<<"PENDING", "PAID">>, <<"PAID", "PROCESSING">>,
     <<"PROCESSING", "SHIPPED">>, <<"SHIPPED", "DELIVERED">>,
     <<"PENDING", "CANCELED">>, <<"PAID", "CANCELED">>,
     <<"PROCESSING", "CANCELED">>}

\* C11: a status update of an order is accepted exactly when it asks for
\* PENDING->PAID, PAID->PROCESSING, PROCESSING->SHIPPED, SHIPPED->DELIVERED
\* or PENDING/PAID/PROCESSING->CANCELED, and then the order takes the new
\* status; any other request, PENDING->DELIVERED among them, is rejected
\* with a validation error and leaves the order as it was.
TransitionsAsListed ==
    [][\A p \in Procs :
          Validates(p) =>
            LET o == proc[p].order
                from == proc[p].status
                to == proc[p].value
            IN /\ (returned'.kind = "status") <=> (<<from, to>> \in Allowed)
               /\ <<from, to>> \in Allowed => order'[o].status = to
               /\ <<from, to>> \notin Allowed =>
                     /\ returned'.kind = "ValidationError"
                     /\ order' = order
               /\ (from = "PENDING" /\ to = "DELIVERED") =>
                     /\ returned'.kind = "ValidationError"
                     /\ order'[o].status = order[o].status]_vars

\* the fourth status update of a run has just moved the order from SHIPPED
\* to DELIVERED, no payment having been made
DeliveredStepByStep ==
    /\ returned.kind = "status"
    /\ calls = 4
    /\ \E o \in Orders : /\ order[o].status = "DELIVERED"
                         /\ payment[o].status = "PENDING"

\* C12: an order that is DELIVERED or CANCELED never changes status again,
\* whatever follows: a status update, a cancel, Payment.mark_as_paid,
\* Payment.mark_as_refunded or an admin bulk action.
FinalStatusIsFinal ==
    [][\A o \in Orders :
          order[o].status \in {"DELIVERED", "CANCELED"}
              => order'[o].status = order[o].status]_vars

\* worker p's cancel request tests the status and saves in this step
Cancels(p) == proc[p].pc = "cancel" /\ proc'[p].pc = "idle"

\* C13: a cancel request succeeds only for an order that is PENDING, PAID or
\* PROCESSING; for an order that is SHIPPED, DELIVERED or CANCELED it is
\* rejected and the status stays.
CancelOnlyBeforeShipping ==
    [][\A p \in Procs :
          Cancels(p) =>
            LET o == proc[p].order
            IN IF proc[p].status \in {"PENDING", "PAID", "PROCESSING"}
               THEN /\ returned'.kind = "status"
                    /\ order'[o].status = "CANCELED"
               ELSE /\ returned'.kind = "HTTP_400_BAD_REQUEST"
                    /\ order' = order]_vars

\* C14: after a successful cancel of an order no reservation tied to the
\* order is RESERVED, and if the order has a coupon, the coupon's
\* current_uses is one less than before, floored at zero.
CancelReleases ==
    [][\A p \in Procs :
          (Cancels(p) /\ returned'.kind = "status") =>
            LET o == proc[p].order
            IN /\ \A i \in Ids :
                     res[i].order = o => res'[i].status # "RESERVED"
               /\ order[o].coupon # None =>
                     coupon'.current_uses = Max(0, coupon.current_uses - 1)]_vars

\* worker p's mark_as_paid saves the order, moving it from PENDING to PAID
PaysOrder(p) ==
    /\ proc[p].pc = "self.order.save"
    /\ proc'[p].pc = "idle"
    /\ proc[p].value = "PAID"
    /\ order[proc[p].order].status = "PENDING"

\* the RESERVED reservations that the cart lines of an order's owner hold
HeldFor(o, prod) ==
    {i \in Ids : /\ res[i].product = prod
                 /\ res[i].status = "RESERVED"
                 /\ res[i].cart_item # None
                 /\ ItemUser(res[i].cart_item) = OrderUser(o)}

\* C15: when Payment.mark_as_paid moves an order from PENDING to PAID, the
\* RESERVED reservations held for the order's products become CONVERTED
\* and each Product.stock goes down by the reserved quantity; no other
\* step makes a reservation CONVERTED.
PaidConverts ==
    [][/\ \A p \in Procs :
            PaysOrder(p) =>
              \A prod \in Products :
                  /\ \A i \in HeldFor(proc[p].order, prod) :
                        res'[i].status = "CONVERTED"
                  /\ stock'[prod] = stock[prod]
                        - QuantityOf(HeldFor(proc[p].order, prod))
       /\ (\E i \in Ids : /\ res[i].status # "CONVERTED"
                          /\ res'[i].status = "CONVERTED")
             => \E p \in Procs : PaysOrder(p)]_vars

\* worker p's add, update or removal of a cart line completes in this step
CompletesLine(p) ==
    \/ /\ proc[p].pc = "update_or_create"
       /\ proc'[p].pc = "idle"
       /\ returned'.kind \in {"HTTP_201_CREATED", "HTTP_200_OK"}
    \/ /\ proc[p].pc = "cart.save"
       /\ proc[p].op = "remove_item"
       /\ proc'[p].pc = "idle"

\* C18: after every completed add, update or removal of a cart line the
\* cart's subtotal is the sum of the totals of its current lines, and its
\* total is the discounted subtotal when the cart has a coupon that is
\* active, not past valid_until and below max_uses, and the subtotal
\* otherwise; the total is compared at the two decimal places the field
\* stores.
TotalsFollowLines ==
    [][\A p \in Procs :
          CompletesLine(p) =>
            /\ cart'.subtotal = Subtotal(items')
            /\ cart'.total \in Quantized(
                 IF /\ cart'.coupon # None
                    /\ coupon.active
                    /\ now <= coupon.valid_until
                    /\ coupon.current_uses < coupon.max_uses
                 THEN apply_discount(coupon, cart'.subtotal)
                 ELSE cart'.subtotal)]_vars

\* C19: in every state a reader can observe, between the steps of the
\* requests in progress as well, the stored subtotal of the cart is the sum
\* of the totals of the lines stored for it.
TotalsNeverStale == cart.subtotal = Subtotal(items)

\* worker p's add_item tests the stock, or saves the line, in this step
TestsStock(p) ==
    /\ proc[p].op = "add_item"
    /\ proc[p].pc \in {"available_stock", "update_or_create"}
    /\ proc'[p].pc = "idle"

\* C20: a request to set a line to quantity q2 is refused for want of
\* stock only when q2 exceeds the available stock plus the quantity q1 the
\* line itself holds in an unexpired RESERVED reservation; stated of a
\* request that runs while no other request is in progress.
OwnReservationNotCounted ==
    [][\A p \in Procs :
          (TestsStock(p)
              /\ \A w \in Procs \ {p} : proc[w].pc = "idle"
              /\ returned'.kind \in {"HTTP_400_BAD_REQUEST", "ValueError"})
          => LET prod == proc[p].product
                 q1 == HeldBy(res, prod, proc[p].cart_item, None, now)
             IN proc[p].quantity > AvailableStock(prod) + q1]_vars

\* a step of worker p's add_item request other than its successful end
AddItemFails(p) ==
    /\ proc[p].op = "add_item" \/ proc'[p].op = "add_item"
    /\ proc'[p] # proc[p]
    /\ returned'.kind \notin {"HTTP_201_CREATED", "HTTP_200_OK"}

\* C21: an add or update of a cart line that fails for want of stock, at
\* the view's test or at reserve_stock inside CartItem.save, leaves the
\* line, every reservation, the cart totals, the stock and the available
\* stock as they were; so does each earlier step of the request.
FailedLineUntouched ==
    [][\A p \in Procs :
          AddItemFails(p) =>
            /\ items' = items
            /\ res' = res
            /\ cart' = cart
            /\ stock' = stock
            /\ \A prod \in Catalog :
                  AvailableStockNext(prod) = AvailableStock(prod)]_vars

\* an update of a line that holds a reservation has failed at reserve_stock
\* and the line still holds it
UpdateRefusedLineKept ==
    /\ returned.kind = "ValueError"
    /\ \E l \in CartLines :
          /\ items[l].quantity > 0
          /\ \E i \in Ids : /\ res[i].cart_item = l
                             /\ res[i].status = "RESERVED"
                             /\ res[i].quantity = items[l].quantity

\* worker p's add_item request ends in success in this step
AddItemSucceeds(p) ==
    /\ proc[p].pc = "update_or_create"
    /\ proc'[p].pc = "idle"
    /\ returned'.kind \in {"HTTP_201_CREATED", "HTTP_200_OK"}

\* C22: after every successful add or update of a line to quantity q the
\* line holds a RESERVED reservation of quantity q that expires 30 minutes
\* after the call, its price_at_time is the product's discount price when
\* that is lower than the list price and the list price otherwise, and its
\* total is q times price_at_time.
LineReservedAfterSuccess ==
    [][\A p \in Procs :
          AddItemSucceeds(p) =>
            LET line == proc[p].cart_item
                q == proc[p].quantity
                product == price[proc[p].product]
                lower == IF /\ product.discount_price # NoPrice
                            /\ product.discount_price < product.price
                         THEN product.discount_price
                         ELSE product.price
            IN /\ \E i \in DOMAIN res' :
                     /\ res'[i].cart_item = line
                     /\ res'[i].status = "RESERVED"
                     /\ res'[i].quantity = q
                     /\ res'[i].expires_at = now + expiration_minutes
               /\ items'[line].quantity = q
               /\ items'[line].price_at_time = lower
               /\ items'[line].total_price = q * lower]_vars

\* the quantity the cart's lines hold of a product in unexpired RESERVED rows
HeldByCart(prod) ==
    SumQuantity(SelectSeq(res, LAMBDA r :
        r.cart_item \in CartLines /\ IsActive(r, prod, now)))

\* worker p's clear deletes the lines in this step
ClearDeletes(p) ==
    proc[p].pc = "items.all.delete" /\ proc'[p].pc = "items.all"

\* worker p's clear ends in this step
ClearEnds(p) ==
    /\ proc[p].op = "clear"
    /\ proc[p].pc = "cart.save"
    /\ proc'[p].pc = "idle"

\* C23: the delete of a clear leaves the cart without lines and no
\* reservation of its former lines RESERVED, so that the available stock of
\* each product rises by the quantity the cart was holding; and when the
\* clear ends on a cart without lines, the cart's subtotal and total are 0.
ClearEmptiesCart ==
    [][\A p \in Procs :
          /\ ClearDeletes(p) =>
                /\ \A l \in CartLines : items'[l] = NoLine
                /\ \A i \in DOMAIN res' :
                      res'[i].cart_item \in CartLines
                          => res'[i].status # "RESERVED"
                /\ \A prod \in Catalog :
                      AvailableStockNext(prod)
                          = AvailableStock(prod) + HeldByCart(prod)
          /\ (ClearEnds(p) /\ \A l \in CartLines : items'[l] = NoLine) =>
                /\ cart'.subtotal = 0
                /\ cart'.total = 0]_vars

\* worker p's order creation, which names a product id that names no
\* product, ends in this step
CreateFails(p) ==
    /\ proc[p].op = "create"
    /\ proc'[p].pc = "idle"
    /\ \E k \in DOMAIN proc[p].loaded : proc[p].loaded[k] \notin Catalog

\* C24: order creation with an empty item list fails with the validation
\* error of validate_items and stores nothing; creation with an item whose
\* product id names no product fails with Product.DoesNotExist and leaves
\* no Order row of this call, and so no OrderItem row, stored.
CreateAllOrNothing ==
    [][/\ \A p \in Procs :
            CreateFails(p) =>
              /\ returned'.kind = "DoesNotExist"
              /\ proc[p].order = None
       /\ returned'.kind = "ValidationError" => placed' = placed]_vars

\* C25: a reservation that is RESERVED and whose expiry the clock can pass
\* eventually leaves RESERVED, for EXPIRED, RELEASED or CONVERTED, when the
\* clock advances and the sweeper keeps being run.
ReservedEventuallyLeaves ==
    \A i \in 1..MaxRes :
        (/\ i \in Ids
         /\ res[i].status = "RESERVED"
         /\ res[i].expires_at < MaxTime)
            ~> (i \in Ids /\ res[i].status \in Terminal)

\* a reservation nobody released or converted has been swept
SweptAfterExpiry ==
    \E i \in Ids : res[i].status = "EXPIRED" /\ res[i].expires_at < now

\* worker p's convert_reservation_to_sale writes the stock in this step
ConvertEnds(p) == proc[p].pc = "stock" /\ proc'[p].pc = "idle"

\* the reservations of a product that are CONVERTED for an order
ConvertedFor(prod, ord) ==
    {i \in Ids : /\ res[i].product = prod
                 /\ res[i].order = ord
                 /\ res[i].status = "CONVERTED"}

\* C26: convert_reservation_to_sale does not reduce Product.stock by more
\* than the quantity of the reservations CONVERTED for its order; when it
\* found none to convert, the stock stays as it was.
ConvertDecrementsWhatItConverted ==
    [][\A p \in Procs :
          ConvertEnds(p) =>
            LET prod == proc[p].product
            IN stock[prod] - stock'[prod]
                  <= QuantityOf(ConvertedFor(prod, proc[p].order))]_vars

\* C27: Product.stock of every product is a non-negative integer in every
\* reachable state.
StockNonNegative == \A prod \in Catalog : stock[prod] >= 0

\* C28: a step that changes Product.stock of any product is the last step
\* of convert_reservation_to_sale; every step of reserve_stock, of
\* release_stock_reservation, of the sweep, of a cart request, of order
\* creation and of an order's status change leaves it unchanged.
OnlyConvertChangesStock ==
    [][stock' # stock => \E p \in Procs : ConvertEnds(p)]_vars

\* a conversion has changed the stock of a product for which the cart
\* holds a line and the ledger a reservation
StockSoldBesideCart ==
    /\ stock[1] < InitStock
    /\ items[1] # NoLine
    /\ \E i \in Ids : res[i].product = 1 /\ res[i].status = "RESERVED"
    /\ placed # <<>>

\* C29: every reservation has exactly one holder: its cart_item or its
\* order is set, never both and never neither.
ExactlyOneHolder ==
    \A i \in Ids : (res[i].cart_item = None) # (res[i].order = None)

\* the RESERVED reservations of a cart line
ReservedOf(l) ==
    {i \in Ids : res[i].cart_item = l /\ res[i].status = "RESERVED"}

====
